---- MODULE Spec2Model ----
(***************************************************************************)
(* Model of IndexingService (src/cmd/nlp/nlp/services/indexing.py): the    *)
(* plaintext indexing worker.  One invocation of process_message walks the *)
(* DocumentEvents of a message; each step of the loop body is one action.  *)
(* The storage, the text splitter, the vector store and the logger are     *)
(* collaborators: their calls are modelled at the call site, with every    *)
(* outcome the call can have (return, raise, cancellation at an await).    *)
(***************************************************************************)
EXTENDS Integers, Sequences, FiniteSets, TLC

\* ---------------------------------------------------------------- bounds
\* Largest number of DocumentEvents in one message.
MaxEvents == 2
\* Redelivery: how often one message is handed to process_message, and the
\* largest number of DocumentEvents in a redelivered message.
MaxDeliveries == 2
MaxRedelivered == 1
\* Largest cfg.text_chunk_size the construction is checked for.
MaxChunkSize == 60

\* ---------------------------------------------------------------- values
\* A string variable that is not bound yet, and "no exception".
Unset == "unset"
None == "none"
\* A text variable that is not bound yet.
NoText == <<"unset">>
\* The storage has no object under the id.
Missing == <<"missing">>

\* Characters.  Texts and identifiers are sequences of characters.
Whitespace == {" "}
HexLower == {"a", "b"}
HexUpper == {"A", "B"}

\* data.object_id as sent: canonical, upper case (same UUID as <<"a">>),
\* a second canonical one, and one that is no hexadecimal string.
ObjectIdStrings == { <<"a">>, <<"A">>, <<"b">>, <<"z">> }

\* pb.FileDataPlaintext: one DocumentEvent, its object_id and its three
\* provenance fields (opaque strings).
DocumentEvent(o, oid, path, pdf) ==
  [ object_id |-> o, originating_object_id |-> oid,
    originating_object_path |-> path, originating_object_converted_pdf |-> pdf ]

\* The DocumentEvents a message is made of: one per object_id string, each
\* with provenance of its own.
DocumentEvents ==
  { DocumentEvent(<<"a">>, "o1", "p1", "f1"),
    DocumentEvent(<<"A">>, "o2", "p2", "f2"),
    DocumentEvent(<<"b">>, "o3", "p3", "f3"),
    DocumentEvent(<<"z">>, "o4", "p4", "f4") }

\* event.metadata.source
Sources == {"web", "fs"}

\* cfg.text_chunk_size values of the model.
ChunkSizes == {1, 2}

\* File contents the storage may hold: empty, whitespace only, two words.
Texts == { <<>>, <<" ">>, <<"a", " ", "b">> }

\* Sequences over S of length 0..n.
SeqUpTo(S, n) == UNION { [1..k -> S] : k \in 0..n }

\* pb.FileDataPlaintextMessage
Messages == [ source : Sources, data : SeqUpTo(DocumentEvents, MaxEvents) ]

\* ------------------------------------------------------------ pure parts
\* str.lower on one character.
Lower(c) == CASE c = "A" -> "a" [] c = "B" -> "b" [] OTHER -> c

\* uuid.UUID(s) succeeds: every digit is hexadecimal (the model's
\* identifiers are one digit wide).
IsUUID(s) == \A i \in 1..Len(s) : s[i] \in HexLower \cup HexUpper

\* uuid.UUID(s): the UUID value, written in its canonical lower-case form.
UUID(s) == [ i \in 1..Len(s) |-> Lower(s[i]) ]

\* The UUIDs the storage is keyed by.
Uuids == { UUID(s) : s \in { t \in ObjectIdStrings : IsUUID(t) } }

RECURSIVE LStrip(_)
LStrip(t) == IF t # <<>> /\ Head(t) \in Whitespace THEN LStrip(Tail(t)) ELSE t

RECURSIVE RStrip(_)
RStrip(t) ==
  IF t # <<>> /\ t[Len(t)] \in Whitespace
  THEN RStrip(SubSeq(t, 1, Len(t) - 1)) ELSE t

\* str.strip()
Strip(t) == RStrip(LStrip(t))

\* A faulty overlap: round(chunk_size/15), to the nearest instead of down.
ChunkOverlap_Rounded(size) == (size + 7) \div 15

\* chunk_overlap = int(chunk_size/15): true division, truncated toward zero.
\* (The float quotient of two integers is correctly rounded, so truncating it
\* gives the integer quotient for every size far below 2^53.)
ChunkOverlap(chunk_size) ==
  IF chunk_size >= 0 THEN chunk_size \div 15 ELSE -((-chunk_size) \div 15)

\* The tokens the splitter counts: the words of the text.
Words(t) == SelectSeq(t, LAMBDA c : c \notin Whitespace)

Min(a, b) == IF a <= b THEN a ELSE b

RECURSIVE Windows(_, _, _, _)
Windows(w, from, size, overlap) ==
  IF from > Len(w) THEN <<>>
  ELSE LET to == Min(from + size - 1, Len(w))
       IN  <<SubSeq(w, from, to)>> \o
           (IF to = Len(w) THEN <<>>
            ELSE Windows(w, from + size - overlap, size, overlap))

\* text_splitter.split_text(text): the splitter is the langchain
\* RecursiveCharacterTextSplitter, a collaborator outside the repository.
\* It is stood in for by windows of chunk_size words that step by
\* chunk_size - chunk_overlap: deterministic, ordered, one chunk or more
\* for a text that is not blank.
SplitText(t, chunk_size) ==
  Windows(Words(t), 1, chunk_size, ChunkOverlap(chunk_size))

\* A faulty record: the pdf field is filled from the path.
MetadataRecord_PathForPdf(src, loc) ==
  [ source |-> src,
    object_id |-> loc.object_id,
    originating_object_id |-> loc.originating_object_id,
    originating_object_path |-> loc.originating_object_path,
    originating_object_pdf |-> loc.originating_object_path ]

\* One ChunkMetadataRecord (lines 87-93).  The pdf field is stored under the
\* key originating_object_pdf.
MetadataRecord(src, loc) ==
  [ source |-> src,
    object_id |-> loc.object_id,
    originating_object_id |-> loc.originating_object_id,
    originating_object_path |-> loc.originating_object_path,
    originating_object_pdf |-> loc.originating_object_converted_pdf ]

\* metadata = [ {...} ] * len(docs)
BuildMetadata(src, loc, n) == [ i \in 1..n |-> MetadataRecord(src, loc) ]

\* A faulty test: `if text:`, without the strip.
NonBlank_NoStrip(t) == t # <<>>

\* if text.strip(): the text is worth indexing.
NonBlank(t) == Strip(t) # <<>>

\* A faulty exit: f is closed, the downloaded file is kept.
WithExit_KeepsFile(h) == h \ {"f"}

\* Leaving the two with-blocks closes f and releases the downloaded file.
WithExit(h) == h \ {"file", "f"}

\* except Exception: CancelledError derives from BaseException and passes.
ExceptCatches(e) == e # "CancelledError"

\* ------------------------------------------------------------------ state
VARIABLES
  event,      \* the message handed to process_message
  text_chunk_size, \* cfg.text_chunk_size
  chunk_size, \* int(cfg.text_chunk_size), handed to the splitter
  chunk_overlap, \* int(chunk_size/15), handed to the splitter
  delivery,   \* how many times the message was handed to process_message
  earlier,    \* the aadd_texts calls of the earlier deliveries
  stored,     \* the storage: UUID -> text of the object, or Missing
  pc,         \* position of process_message
  idx,        \* 1-based position of `data` in event.data
  locals,     \* object_id and the originating_* locals (lines 67-70)
  source,     \* source (line 71)
  text,       \* f.read()
  docs,       \* chunks returned by split_text
  metadata,   \* the metadata list
  exc,        \* the exception bound to e in the except clause
  held,       \* open resources: "file" (the download), "f" (open(file.name))
  escaped,    \* the exception that left process_message, if any
  log,        \* structlog entries written, in order
  calls,      \* collaborator calls made by this invocation, in order
  store,      \* batches the vector store accepted, in order
  outcome     \* per DocumentEvent: what became of it

\* What process_message never changes, and what a delivery sets.
fixed == << event, text_chunk_size, chunk_size, chunk_overlap, stored >>
redelivery == << delivery, earlier >>

vars == << event, text_chunk_size, chunk_size, chunk_overlap, delivery, earlier,
           stored, pc, idx, locals, source, text, docs, metadata,
           exc, held, escaped, log, calls, store, outcome >>

\* A collaborator call as recorded in calls: op is download, read (arg is
\* the text f.read() returned), split_text or aadd_texts; at is the position
\* of the DocumentEvent it was made for.
Call(op, at, arg, texts, metadatas) ==
  [ op |-> op, at |-> at, arg |-> arg, texts |-> texts, metadatas |-> metadatas ]

\* logger.ainfo(msg, object_id=object_id)
InfoEntry(at, msg, n, oid) ==
  [ level |-> "info", at |-> at, event |-> <<msg, n>>, kv |-> [object_id |-> oid] ]

\* logger.aexception(e, message="exception in processing a plaintext file")
ExceptionEntry(at, e) ==
  [ level |-> "error", at |-> at, event |-> <<e>>,
    kv |-> [message |-> "exception in processing a plaintext file"] ]

Init ==
  /\ event \in Messages
  /\ text_chunk_size \in ChunkSizes
  /\ chunk_size = text_chunk_size
  /\ chunk_overlap = ChunkOverlap(chunk_size)
  /\ delivery = 0
  /\ earlier = <<>>
  /\ stored \in [Uuids -> Texts \cup {Missing}]
  /\ pc = "idle"
  /\ idx = 0
  /\ locals = [ object_id |-> NoText, originating_object_id |-> Unset,
                originating_object_path |-> Unset,
                originating_object_converted_pdf |-> Unset ]
  /\ source = Unset
  /\ text = NoText
  /\ docs = <<>>
  /\ metadata = <<>>
  /\ exc = None
  /\ held = {}
  /\ escaped = None
  /\ log = <<>>
  /\ calls = <<>>
  /\ store = <<>>
  /\ outcome = [i \in 1..Len(event.data) |-> "pending"]

\* ---------------------------------------------------------------- actions
\* The worker hands the message to process_message (line 63).
Receive ==
  /\ pc = "idle"
  /\ pc' = "for"
  /\ delivery' = delivery + 1
  /\ UNCHANGED << fixed, earlier, idx, locals, source, text, docs,
                  metadata, exc, held, escaped, log, calls, store, outcome >>

\* for data in event.data: the next DocumentEvent (line 66).
ForNext ==
  /\ pc = "for"
  /\ idx < Len(event.data)
  /\ idx' = idx + 1
  /\ pc' = "assign"
  /\ UNCHANGED << fixed, redelivery, locals, source, text, docs,
                  metadata, exc, held, escaped, log, calls, store, outcome >>

\* A faulty return: a message without DocumentEvents is rejected.
Return_RejectsEmpty ==
  /\ pc = "for"
  /\ idx = Len(event.data)
  /\ IF Len(event.data) = 0
     THEN pc' = "raised" /\ escaped' = "ValueError"
     ELSE pc' = "returned" /\ UNCHANGED escaped
  /\ UNCHANGED << fixed, redelivery, idx, locals, source, text, docs, metadata,
                  exc, held, log, calls, store, outcome >>

\* The loop is exhausted: process_message returns None.
Return ==
  /\ pc = "for"
  /\ idx = Len(event.data)
  /\ pc' = "returned"
  /\ UNCHANGED << fixed, redelivery, idx, locals, source, text, docs,
                  metadata, exc, held, escaped, log, calls, store, outcome >>

\* Lines 67-71, before the try: uuid.UUID(data.object_id) raises ValueError
\* on a malformed string, and nothing encloses it.
AssignLocals ==
  /\ pc = "assign"
  /\ LET data == event.data[idx] IN
     IF IsUUID(data.object_id)
     THEN /\ locals' = [ object_id |-> UUID(data.object_id),
                         originating_object_id |-> data.originating_object_id,
                         originating_object_path |-> data.originating_object_path,
                         originating_object_converted_pdf |->
                           data.originating_object_converted_pdf ]
          /\ source' = event.source
          /\ pc' = "download"
          /\ UNCHANGED << escaped, outcome >>
     ELSE /\ escaped' = "ValueError"
          /\ outcome' = [outcome EXCEPT ![idx] = "invalid"]
          /\ pc' = "raised"
          /\ UNCHANGED << locals, source >>
  /\ UNCHANGED << fixed, redelivery, idx, text, docs, metadata, exc,
                  held, log, calls, store >>

\* with await self.storage.download(object_id) as file (line 75; line 74
\* prints the id to stdout).  The storage returns the file, or raises when
\* the object is missing or the storage cannot be reached.
Download ==
  /\ pc = "download"
  /\ calls' = Append(calls, Call("download", idx, locals.object_id, <<>>, <<>>))
  /\ \E reachable \in BOOLEAN :
       IF reachable /\ stored[locals.object_id] # Missing
       THEN /\ held' = held \cup {"file"}
            /\ pc' = "read"
            /\ UNCHANGED << exc, outcome >>
       ELSE /\ exc' = "RetrievalFailure"
            /\ outcome' = [outcome EXCEPT ![idx] = "retrieval_failed"]
            /\ pc' = "except"
            /\ UNCHANGED held
  /\ UNCHANGED << fixed, redelivery, idx, locals, source, text, docs,
                  metadata, escaped, log, store >>

\* with open(file.name, 'r') as f: text = f.read() (lines 76-78).  Opening
\* or decoding can raise; the with-blocks are left before the except clause.
ReadText ==
  /\ pc = "read"
  /\ \E readable \in BOOLEAN :
       IF readable
       THEN /\ held' = held \cup {"f"}
            /\ text' = stored[locals.object_id]
            /\ calls' = Append(calls, Call("read", idx, stored[locals.object_id],
                                           <<>>, <<>>))
            /\ pc' = "strip"
            /\ UNCHANGED << exc, outcome >>
       ELSE /\ held' = WithExit(held)
            /\ exc' = "ReadFailure"
            /\ outcome' = [outcome EXCEPT ![idx] = "read_failed"]
            /\ pc' = "except"
            /\ UNCHANGED << text, calls >>
  /\ UNCHANGED << fixed, redelivery, idx, locals, source, docs,
                  metadata, escaped, log, store >>

\* if text.strip() (line 80): a blank text falls through to the end of the
\* with-blocks and the next iteration.
CheckText ==
  /\ pc = "strip"
  /\ IF NonBlank(text)
     THEN /\ pc' = "split"
          /\ UNCHANGED << held, outcome >>
     ELSE /\ held' = WithExit(held)
          /\ outcome' = [outcome EXCEPT ![idx] = "blank"]
          /\ pc' = "for"
  /\ UNCHANGED << fixed, redelivery, idx, locals, source, text, docs,
                  metadata, exc, escaped, log, calls, store >>

\* docs = self.text_splitter.split_text(text) (line 83).  The tokenizer can
\* raise on the text.
SplitTextCall ==
  /\ pc = "split"
  /\ calls' = Append(calls, Call("split_text", idx, text, <<>>, <<>>))
  /\ \E encodable \in BOOLEAN :
       IF encodable
       THEN /\ docs' = SplitText(text, chunk_size)
            /\ pc' = "metadata"
            /\ UNCHANGED << held, exc, outcome >>
       ELSE /\ held' = WithExit(held)
            /\ exc' = "ChunkingFailure"
            /\ outcome' = [outcome EXCEPT ![idx] = "chunking_failed"]
            /\ pc' = "except"
            /\ UNCHANGED docs
  /\ UNCHANGED << fixed, redelivery, idx, locals, source, text,
                  metadata, escaped, log, store >>

\* metadata = [ {...} ] * len(docs) (lines 86-94).
MakeMetadata ==
  /\ pc = "metadata"
  /\ metadata' = BuildMetadata(source, locals, Len(docs))
  /\ pc' = "log_loading"
  /\ UNCHANGED << fixed, redelivery, idx, locals, source, text, docs,
                  exc, held, escaped, log, calls, store, outcome >>

\* await logger.ainfo("Loading ... documents", object_id=object_id) (line 96).
LogLoading ==
  /\ pc = "log_loading"
  /\ log' = Append(log, InfoEntry(idx, "loading", Len(docs), locals.object_id))
  /\ pc' = "add_texts"
  /\ UNCHANGED << fixed, redelivery, idx, locals, source, text, docs,
                  metadata, exc, held, escaped, calls, store, outcome >>

\* A faulty upload: one aadd_texts call per chunk.
AddTextsPerChunk(d, m) ==
  [ k \in 1..Len(d) |-> [ op |-> "aadd_texts", at |-> idx, arg |-> <<>>,
                          texts |-> <<d[k]>>, metadatas |-> <<m[k]>> ] ]

\* The aadd_texts calls of one DocumentEvent: one, with the whole batch
\* (line 100).
AddTextsCalls(d, m) == << Call("aadd_texts", idx, <<>>, d, m) >>

\* A faulty upload: the batch is sent under an id derived from its content,
\* and the store keeps one entry per id.
StoreAdd_ById(st, d, m) ==
  IF \E k \in 1..Len(st) : st[k] = [texts |-> d, metadatas |-> m]
  THEN st ELSE Append(st, [texts |-> d, metadatas |-> m])

\* A faulty upload: the index is written anew by each call.
StoreAdd_Replace(st, d, m) == << [texts |-> d, metadatas |-> m] >>

\* aadd_texts(docs, metadata) is given texts and metadatas and nothing else
\* (no ids): the store gains the batch as new entries (line 100).
StoreAdd(st, d, m) == Append(st, [texts |-> d, metadatas |-> m])

\* await self.vector_store.aadd_texts(docs, metadata) (line 100): the store
\* takes the batch, or the call raises (embedding, network, auth).
AddTexts ==
  /\ pc = "add_texts"
  /\ calls' = calls \o AddTextsCalls(docs, metadata)
  /\ \E accepted \in BOOLEAN :
       IF accepted
       THEN /\ store' = StoreAdd(store, docs, metadata)
            /\ outcome' = [outcome EXCEPT ![idx] = "indexed"]
            /\ pc' = "log_loaded"
            /\ UNCHANGED << held, exc >>
       ELSE /\ held' = WithExit(held)
            /\ exc' = "IndexingFailure"
            /\ outcome' = [outcome EXCEPT ![idx] = "indexing_failed"]
            /\ pc' = "except"
            /\ UNCHANGED store
  /\ UNCHANGED << fixed, redelivery, idx, locals, source, text, docs,
                  metadata, escaped, log >>

\* await logger.ainfo("... documents loaded in ...") (line 102), then the end
\* of the with-blocks and the next iteration.
LogLoaded ==
  /\ pc = "log_loaded"
  /\ log' = Append(log, InfoEntry(idx, "loaded", Len(docs), locals.object_id))
  /\ held' = WithExit(held)
  /\ pc' = "for"
  /\ UNCHANGED << fixed, redelivery, idx, locals, source, text, docs,
                  metadata, exc, escaped, calls, store, outcome >>

\* A faulty handler: `except Exception: pass`, nothing is logged.
HandleException_Silent ==
  /\ pc = "except"
  /\ ExceptCatches(exc)
  /\ pc' = "for"
  /\ UNCHANGED << fixed, redelivery, idx, locals, source, text, docs, metadata,
                  exc, held, escaped, log, calls, store, outcome >>

\* A faulty handler: a failed download is attempted a second time.
HandleException_Retry ==
  /\ pc = "except"
  /\ ExceptCatches(exc)
  /\ log' = Append(log, [ level |-> "error", at |-> idx, event |-> <<exc>>,
                          kv |-> [message |->
                                    "exception in processing a plaintext file"] ])
  /\ pc' = IF /\ exc = "RetrievalFailure"
              /\ Cardinality({ k \in 1..Len(calls) :
                                 calls[k].op = "download" /\ calls[k].at = idx }) < 2
           THEN "download" ELSE "for"
  /\ UNCHANGED << fixed, redelivery, idx, locals, source, text, docs, metadata,
                  exc, held, escaped, calls, store, outcome >>

\* except Exception as e: await logger.aexception(e, message=...)
\* (lines 104-105), then the next iteration.
HandleException ==
  /\ pc = "except"
  /\ ExceptCatches(exc)
  /\ log' = Append(log, ExceptionEntry(idx, exc))
  /\ pc' = "for"
  /\ UNCHANGED << fixed, redelivery, idx, locals, source, text, docs,
                  metadata, exc, held, escaped, calls, store, outcome >>

\* The awaits of process_message: where a cancellation can be delivered.
AwaitPoints == {"download", "log_loading", "add_texts", "log_loaded", "except"}

\* The task is cancelled while suspended in an await (lines 75, 96, 100, 102,
\* 105): CancelledError is raised there, the with-blocks are left, and the
\* except clause lets it pass (ExceptCatches), so it leaves process_message.
\* A call that was awaited has been made.
Cancel ==
  /\ pc \in AwaitPoints
  /\ calls' = CASE pc = "download" ->
                     Append(calls, Call("download", idx, locals.object_id, <<>>, <<>>))
                [] pc = "add_texts" -> calls \o AddTextsCalls(docs, metadata)
                [] OTHER -> calls
  /\ held' = WithExit(held)
  /\ IF ExceptCatches("CancelledError")
     THEN /\ exc' = "CancelledError"
          /\ pc' = "except"
          /\ UNCHANGED escaped
     ELSE /\ escaped' = "CancelledError"
          /\ pc' = "raised"
          /\ UNCHANGED exc
  /\ outcome' = IF outcome[idx] = "pending"
                THEN [outcome EXCEPT ![idx] = "cancelled"] ELSE outcome
  /\ UNCHANGED << fixed, redelivery, idx, locals, source, text, docs,
                  metadata, log, store >>

Next ==
  \/ Receive
  \/ ForNext
  \/ Return
  \/ AssignLocals
  \/ Download
  \/ ReadText
  \/ CheckText
  \/ SplitTextCall
  \/ MakeMetadata
  \/ LogLoading
  \/ AddTexts
  \/ LogLoaded
  \/ HandleException
  \/ Cancel

Spec == Init /\ [][Next]_vars

\* -------------------------------------------------------------- redelivery
\* The aadd_texts calls of the invocation that ended, each with whether the
\* store accepted it.
Archive(cs, oc) ==
  LET adds == SelectSeq(cs, LAMBDA c : c.op = "aadd_texts")
  IN  [ k \in 1..Len(adds) |->
          [ at |-> adds[k].at, texts |-> adds[k].texts,
            metadatas |-> adds[k].metadatas,
            accepted |-> oc[adds[k].at] = "indexed" ] ]

\* The queue delivers the same message again and the worker calls
\* process_message on it anew (line 63): the locals are fresh, the storage
\* and the vector store are as the earlier delivery left them.
Redeliver ==
  /\ pc \in {"returned", "raised"}
  /\ delivery < MaxDeliveries
  /\ delivery' = delivery + 1
  /\ earlier' = earlier \o Archive(calls, outcome)
  /\ pc' = "for"
  /\ idx' = 0
  /\ locals' = [ object_id |-> NoText, originating_object_id |-> Unset,
                 originating_object_path |-> Unset,
                 originating_object_converted_pdf |-> Unset ]
  /\ source' = Unset
  /\ text' = NoText
  /\ docs' = <<>>
  /\ metadata' = <<>>
  /\ exc' = None
  /\ escaped' = None
  /\ log' = <<>>
  /\ calls' = <<>>
  /\ outcome' = [i \in 1..Len(event.data) |-> "pending"]
  /\ UNCHANGED << fixed, held, store >>

\* Messages of at most MaxRedelivered DocumentEvents.
InitRedeliver == Init /\ Len(event.data) <= MaxRedelivered

NextRedeliver == Next \/ Redeliver

SpecRedeliver == InitRedeliver /\ [][NextRedeliver]_vars

\* ------------------------------------------------------------ construction
\* Before __init__ ran: the setting is any size from 1 to MaxChunkSize, there
\* is no splitter yet and no message.
InitCfg ==
  /\ text_chunk_size \in 1..MaxChunkSize
  /\ chunk_size = 0
  /\ chunk_overlap = 0
  /\ event = [source |-> "web", data |-> <<>>]
  /\ stored = [u \in Uuids |-> Missing]
  /\ delivery = 0
  /\ earlier = <<>>
  /\ pc = "new"
  /\ idx = 0
  /\ locals = [ object_id |-> NoText, originating_object_id |-> Unset,
                originating_object_path |-> Unset,
                originating_object_converted_pdf |-> Unset ]
  /\ source = Unset
  /\ text = NoText
  /\ docs = <<>>
  /\ metadata = <<>>
  /\ exc = None
  /\ held = {}
  /\ escaped = None
  /\ log = <<>>
  /\ calls = <<>>
  /\ store = <<>>
  /\ outcome = <<>>

\* IndexingService.__init__ (lines 37-38, 55-59): the chunk size and the
\* overlap the splitter is built with.  int() of an integer setting is the
\* setting.
Construct ==
  /\ pc = "new"
  /\ chunk_size' = text_chunk_size
  /\ chunk_overlap' = ChunkOverlap(text_chunk_size)
  /\ pc' = "idle"
  /\ UNCHANGED << event, text_chunk_size, stored, redelivery, idx, locals,
                  source, text, docs, metadata, exc, held, escaped, log, calls,
                  store, outcome >>

NextCfg == Construct

SpecCfg == InitCfg /\ [][NextCfg]_vars

\* ------------------------------------------------------- reading the state
\* process_message is over: it returned or an exception left it.
Over == pc \in {"returned", "raised"}

\* The processing of the i-th DocumentEvent is over.
Finished(i) == i < idx \/ (i = idx /\ pc \in {"for", "returned", "raised"})

Positions == 1..Len(event.data)

\* The calls of one operation made for the i-th DocumentEvent.
CallsOf(op, i) == { k \in 1..Len(calls) : calls[k].op = op /\ calls[k].at = i }

\* The error log entries written for the i-th DocumentEvent.
ErrorsOf(i) == { k \in 1..Len(log) : log[k].level = "error" /\ log[k].at = i }

\* The i-th DocumentEvent was retrieved: its text was read.
Retrieved(i) == CallsOf("read", i) # {}
RetrievedText(i) == calls[CHOOSE k \in CallsOf("read", i) : TRUE].arg

\* Empty or whitespace only, character by character.
IsBlankText(t) == \A k \in 1..Len(t) : t[k] \in Whitespace

\* The per-item errors of steps 1-5.
PerItemErrors == {"ValueError", "RetrievalFailure", "ReadFailure",
                  "ChunkingFailure", "IndexingFailure"}
FailedOutcomes == {"invalid", "retrieval_failed", "read_failed",
                   "chunking_failed", "indexing_failed"}

\* ----------------------------------------------------------------- claims
\* C1 (as claimed): a failure in steps 1-5 of one DocumentEvent is caught and
\* logged, and every other DocumentEvent of the same message is still
\* processed: when process_message is over (cancellation apart) and event j
\* failed, j has an error entry and every sibling i was processed, with its
\* download attempted when its id is well formed.
C1_FailureIsolated ==
  (Over /\ escaped # "CancelledError") =>
    \A j \in Positions : \A i \in Positions \ {j} :
      outcome[j] \in FailedOutcomes =>
        /\ ErrorsOf(j) # {}
        /\ outcome[i] # "pending"
        /\ IsUUID(event.data[i].object_id) => CallsOf("download", i) # {}

\* C2 (as claimed): no per-item error (InvalidInput, RetrievalFailure,
\* IndexingFailure, ...) ever escapes process_message.
C2_NoPerItemErrorEscapes == escaped \notin PerItemErrors

\* C3 (as claimed): when process_message is over (cancellation apart), the
\* number of aadd_texts calls equals the number of events retrieved with
\* nonblank text, and the number of error log entries equals the number of
\* events that failed.
C3_CallAndLogCounts ==
  (Over /\ escaped # "CancelledError") =>
    /\ Cardinality({ k \in 1..Len(calls) : calls[k].op = "aadd_texts" })
         = Cardinality({ i \in Positions :
                           Retrieved(i) /\ ~IsBlankText(RetrievedText(i)) })
    /\ Cardinality({ k \in 1..Len(log) : log[k].level = "error" })
         = Cardinality({ i \in Positions : outcome[i] \in FailedOutcomes })

\* C4 (as claimed): when the download of a DocumentEvent raised and the
\* event's processing is over (cancellation apart), nothing was chunked or
\* indexed for it, and exactly one error entry was written for it, which
\* contains the event's object_id.
C4_RetrievalFailureLogged ==
  \A i \in Positions :
    (outcome[i] = "retrieval_failed" /\ Finished(i)
       /\ escaped # "CancelledError") =>
      /\ escaped = None
      /\ CallsOf("split_text", i) = {} /\ CallsOf("aadd_texts", i) = {}
      /\ Cardinality(ErrorsOf(i)) = 1
      /\ \A k \in ErrorsOf(i) :
           /\ "object_id" \in DOMAIN log[k].kv
           /\ log[k].kv.object_id = UUID(event.data[i].object_id)

\* C5: a DocumentEvent whose retrieved text is empty or whitespace only is
\* skipped silently: no split_text call, no metadata, no aadd_texts call, no
\* log entry and no exception for it, and the loop goes on to the next event.
C5_BlankSkippedSilently ==
  \A i \in Positions :
    (Retrieved(i) /\ IsBlankText(RetrievedText(i))) =>
      /\ CallsOf("split_text", i) = {} /\ CallsOf("aadd_texts", i) = {}
      /\ \A k \in 1..Len(log) : log[k].at # i
      /\ idx = i => pc \in {"strip", "for", "returned"}
      /\ (idx = i /\ pc # "strip") => held = {}

\* C5 witness: a whitespace-only text was retrieved for one event and the
\* loop went on to the next one.
C5_Witness ==
  \E i \in Positions :
    /\ Retrieved(i) /\ RetrievedText(i) = <<" ">>
    /\ outcome[i] = "blank"
    /\ idx > i

\* The aadd_texts calls made so far.
AddCalls == { k \in 1..Len(calls) : calls[k].op = "aadd_texts" }

\* C6 (as claimed): in every aadd_texts call the metadata list is as long as
\* the chunk list, and each record's fields equal the values of the
\* DocumentEvent being processed, object_id included, and metadata.source.
C6_RecordsEqualEvent ==
  \A k \in AddCalls :
    LET c == calls[k]
        d == event.data[c.at]
    IN  /\ Len(c.metadatas) = Len(c.texts)
        /\ \A m \in 1..Len(c.metadatas) :
             /\ c.metadatas[m].source = event.source
             /\ c.metadatas[m].object_id = d.object_id
             /\ c.metadatas[m].originating_object_id = d.originating_object_id
             /\ c.metadatas[m].originating_object_path = d.originating_object_path
             /\ c.metadatas[m].originating_object_pdf
                  = d.originating_object_converted_pdf

\* C6 (amended): as above, except that the record's object_id is the UUID
\* parsed from the event's object_id, in canonical form, which is the string
\* the event carries only when that string is canonical already; all records
\* of a call are identical and none carries a field of another event.
C6_RecordsCarryParsedId ==
  \A k \in AddCalls :
    LET c == calls[k]
        d == event.data[c.at]
    IN  /\ Len(c.metadatas) = Len(c.texts)
        /\ \A m \in 1..Len(c.metadatas) :
             /\ c.metadatas[m] = c.metadatas[1]
             /\ DOMAIN c.metadatas[m]
                  = {"source", "object_id", "originating_object_id",
                     "originating_object_path", "originating_object_pdf"}
             /\ c.metadatas[m].source = event.source
             /\ c.metadatas[m].object_id = UUID(d.object_id)
             /\ c.metadatas[m].originating_object_id = d.originating_object_id
             /\ c.metadatas[m].originating_object_path = d.originating_object_path
             /\ c.metadatas[m].originating_object_pdf
                  = d.originating_object_converted_pdf

\* C6 witness: the second of two events with different provenance, its
\* object_id in upper case, was indexed in a call of two chunks.
C6_Witness ==
  \E k \in AddCalls :
    /\ calls[k].at = 2
    /\ Len(calls[k].texts) = 2
    /\ event.data[2].object_id = <<"A">>
    /\ event.data[1].originating_object_id # event.data[2].originating_object_id
    /\ outcome[1] = "indexed"

\* C7: for a DocumentEvent there is never more than one aadd_texts call; the
\* call carries the whole chunk sequence the splitter returned for the
\* event's text, in the splitter's order, with one metadata record per chunk;
\* and an event with nonblank text whose processing ended without a chunking
\* failure or a cancellation got exactly one call.
C7_OneBatchPerEvent ==
  \A i \in Positions :
    /\ Cardinality(CallsOf("aadd_texts", i)) <= 1
    /\ \A k \in CallsOf("aadd_texts", i) :
         /\ Retrieved(i) /\ ~IsBlankText(RetrievedText(i))
         /\ calls[k].texts = SplitText(RetrievedText(i), chunk_size)
         /\ Len(calls[k].metadatas) = Len(calls[k].texts)
    /\ ( /\ Finished(i) /\ Retrieved(i) /\ ~IsBlankText(RetrievedText(i))
         /\ outcome[i] \notin {"chunking_failed", "cancelled"} )
       => Cardinality(CallsOf("aadd_texts", i)) = 1

\* C7 witness: an event whose text splits into two chunks was indexed.
C7_Witness ==
  \E i \in Positions : \E k \in CallsOf("aadd_texts", i) :
    /\ Len(calls[k].texts) = 2
    /\ calls[k].texts[1] # calls[k].texts[2]
    /\ outcome[i] = "indexed"
    /\ Finished(i)

\* C8: outside the with-blocks no downloaded resource is held: not when the
\* next DocumentEvent starts, not in the except clause, not when
\* process_message is over.
C8_ResourceReleased ==
  pc \in {"idle", "for", "assign", "download", "except", "returned", "raised"}
    => held = {}

\* C8 witness: process_message returned after one event was skipped on blank
\* text and another failed in aadd_texts, both after a successful download.
C8_Witness ==
  /\ pc = "returned"
  /\ held = {}
  /\ \E i, j \in Positions :
       /\ outcome[i] = "blank" /\ CallsOf("read", i) # {}
       /\ outcome[j] = "indexing_failed" /\ CallsOf("read", j) # {}

\* C9 (as claimed): a cancellation delivered in download or aadd_texts is
\* handled like a per-item failure: it does not leave process_message, the
\* cancelled event gets its error entry, and the resource is released.
C9_CancellationContained ==
  /\ escaped # "CancelledError"
  /\ \A i \in Positions :
       (outcome[i] = "cancelled" /\ Finished(i)) =>
         (ErrorsOf(i) # {} /\ held = {})

\* C11: for every text_chunk_size >= 1 the overlap handed to the splitter is
\* floor(text_chunk_size / 15), the one q with 15 q <= size < 15 (q + 1); it
\* satisfies 0 <= overlap < size, and it is 0 for every size from 1 to 14.
C11_OverlapIsFloor ==
  pc = "idle" =>
    /\ chunk_size = text_chunk_size
    /\ 15 * chunk_overlap <= chunk_size
    /\ chunk_size < 15 * (chunk_overlap + 1)
    /\ 0 <= chunk_overlap /\ chunk_overlap < chunk_size
    /\ chunk_size \in 1..14 => chunk_overlap = 0

\* C11 witness: the service was built with a chunk size of 44, which is not
\* a multiple of 15, and the overlap is 2.
C11_Witness == pc = "idle" /\ text_chunk_size = 44 /\ chunk_overlap = 2

\* C12: when a message is delivered again with the storage unchanged, each
\* aadd_texts call of the new delivery has the same chunk sequence and the
\* same metadata as the call made for that DocumentEvent in an earlier
\* delivery; a batch is texts and metadatas only, with no id, and the store
\* holds one batch per accepted call, the duplicates included.
C12_RedeliveryDuplicates ==
  /\ \A k \in AddCalls : \A e \in 1..Len(earlier) :
       earlier[e].at = calls[k].at =>
         /\ earlier[e].texts = calls[k].texts
         /\ earlier[e].metadatas = calls[k].metadatas
  /\ \A k \in 1..Len(store) : DOMAIN store[k] = {"texts", "metadatas"}
  /\ Len(store) = Cardinality({ e \in 1..Len(earlier) : earlier[e].accepted })
                  + Cardinality({ i \in Positions : outcome[i] = "indexed" })

\* C12 witness: the second delivery indexed, in two chunks, the event the
\* first delivery had indexed, and the store holds the batch twice.
C12_Witness ==
  /\ delivery = 2
  /\ Len(earlier) = 1 /\ earlier[1].accepted /\ earlier[1].at = 1
  /\ outcome[1] = "indexed"
  /\ Len(store) = 2 /\ store[1] = store[2]
  /\ Len(store[1].texts) = 2

\* The outcomes with which the processing of a DocumentEvent ends and the
\* loop goes on.
EndedOutcomes == {"blank", "indexed", "retrieval_failed", "read_failed",
                  "chunking_failed", "indexing_failed"}

\* C13: the DocumentEvents of a message are processed one after the other in
\* message order: calls and log entries are made in the order of their
\* events, an event's download starts only when every event before it has
\* ended (indexed, skipped, or failed and logged) and its resources are
\* released, and at most one downloaded event is unfinished at a time.
C13_Sequential ==
  /\ \A k, l \in 1..Len(calls) : k < l => calls[k].at <= calls[l].at
  /\ \A k, l \in 1..Len(log) : k < l => log[k].at <= log[l].at
  /\ \A i \in Positions :
       (pc = "download" /\ idx = i) \/ CallsOf("download", i) # {} =>
         \A j \in 1..(i - 1) :
           /\ outcome[j] \in EndedOutcomes
           /\ outcome[j] \in FailedOutcomes => ErrorsOf(j) # {}
  /\ pc = "download" => held = {}
  /\ Cardinality({ i \in Positions :
                     CallsOf("download", i) # {} /\ outcome[i] = "pending" }) <= 1

\* C13 witness: both events of a message were indexed, the first call for
\* the second event coming after the last call for the first.
C13_Witness ==
  /\ pc = "returned"
  /\ Len(event.data) = 2
  /\ outcome = <<"indexed", "indexed">>
  /\ \E k \in AddCalls : calls[k].at = 1 /\ calls[k + 1].at = 2

\* C14: within one invocation no call is repeated for a DocumentEvent:
\* download, read, split_text and aadd_texts are each called at most once
\* for it and at most one error entry is written for it, also when the call
\* failed: a failed download is followed by no further call for the event,
\* a failed aadd_texts call stays the only one.
C14_NoRetry ==
  \A i \in Positions :
    /\ \A op \in {"download", "read", "split_text", "aadd_texts"} :
         Cardinality(CallsOf(op, i)) <= 1
    /\ Cardinality(ErrorsOf(i)) <= 1
    /\ outcome[i] = "retrieval_failed" =>
         /\ Cardinality(CallsOf("download", i)) = 1
         /\ CallsOf("read", i) = {} /\ CallsOf("aadd_texts", i) = {}
    /\ outcome[i] = "indexing_failed" =>
         Cardinality(CallsOf("aadd_texts", i)) = 1

\* C14 witness: process_message returned after the download of the first
\* event and the aadd_texts call of the second had failed.
C14_Witness ==
  /\ pc = "returned"
  /\ outcome = <<"retrieval_failed", "indexing_failed">>

\* C15: a message without DocumentEvents is a no-op: no collaborator call,
\* no log entry, nothing stored or held, no exception; process_message only
\* returns.
C15_EmptyMessageNoOp ==
  Len(event.data) = 0 =>
    /\ calls = <<>> /\ log = <<>> /\ store = <<>>
    /\ held = {} /\ escaped = None /\ idx = 0
    /\ pc \in {"idle", "for", "returned"}

\* C15 witness: process_message returned from an empty message.
C15_Witness == Len(event.data) = 0 /\ pc = "returned"

\* The batch the i-th DocumentEvent is indexed as: the chunks of its text,
\* each with the record of the event.
ExpectedBatch(i) ==
  LET d == event.data[i]
      chunks == SplitText(RetrievedText(i), chunk_size)
  IN  [ texts |-> chunks,
        metadatas |->
          [ k \in 1..Len(chunks) |->
              [ source |-> event.source,
                object_id |-> UUID(d.object_id),
                originating_object_id |-> d.originating_object_id,
                originating_object_path |-> d.originating_object_path,
                originating_object_pdf |-> d.originating_object_converted_pdf ] ] ]

\* The batches of the events among the first n whose aadd_texts call
\* succeeded, in message order.
RECURSIVE BatchesUpTo(_)
BatchesUpTo(n) ==
  IF n = 0 THEN <<>>
  ELSE BatchesUpTo(n - 1) \o
       (IF outcome[n] = "indexed" THEN <<ExpectedBatch(n)>> ELSE <<>>)

\* C16: at every moment, and so when process_message is over, the vector
\* store holds exactly the batches of the events that were retrieved with
\* nonblank text and whose aadd_texts call succeeded, in message order: a
\* later failure changes nothing of them and a failed call adds nothing.
C16_StoreIsIndexedBatches ==
  /\ store = BatchesUpTo(Len(event.data))
  /\ \A i \in Positions :
       outcome[i] = "indexed" =>
         Retrieved(i) /\ ~IsBlankText(RetrievedText(i))

\* C16 witness: the first event was indexed, the aadd_texts call of the
\* second failed, and the store holds the one batch of the first.
C16_Witness ==
  /\ pc = "returned"
  /\ outcome = <<"indexed", "indexing_failed">>
  /\ Len(store) = 1
  /\ store[1].metadatas[1].object_id = UUID(event.data[1].object_id)
  /\ event.data[1].object_id # event.data[2].object_id

====
